---------------------------- MODULE Spec2Model ----------------------------
(***************************************************************************)
(* The load-testing engine of Load-Testing-From-Scratch.                   *)
(*                                                                         *)
(* Two builds of the tool are modelled; `variant` says which one runs:     *)
(*   "epoch"  src/load_test/load.go   one goroutine per request, rps       *)
(*                                    goroutines launched per second       *)
(*   "paced"  src/unnamed/part_000    runtime.NumCPU() long-lived workers  *)
(*                                                                         *)
(* Durations are whole nanoseconds.  TLC's integers are 32 bits wide, so   *)
(* math.MaxInt64 is represented by the largest TLC integer; every other    *)
(* duration of the model is far below it.                                  *)
(***************************************************************************)
EXTENDS Integers, Sequences, FiniteSets, TLC

VARIABLES
    variant,        \* which build is running
    errCounter,     \* var errCounter int64 (package level)
    hpc,            \* where LoadTestHandler stands
    query,          \* the rps and duration query parameters as strconv.Atoi sees them
    rps,            \* LoadTestHandler locals
    duration,
    totalRequests,
    i,              \* outer loop counter
    k,              \* inner loop counter
    wg,             \* the sync.WaitGroup counter
    results,        \* the results channel
    workers,        \* the goroutines launched by this invocation, in launch order
    agg,            \* the accumulators of the metrics loop
    metrics,        \* the LoadTestMetrics struct built by the invocation
    response,       \* what the caller of the last invocation got
    failed,         \* history: GETs of this invocation that returned an error
    okSum,          \* history: summed latency of the GETs that returned a response
    drained,        \* history: Results received from the channel by this invocation
    carried,        \* history: errCounter was non-zero when this invocation began
    runs,           \* history: invocations of the paced build so far
    calc,           \* the aggregation loop and calculatePercentile run on their own
    proc            \* main(): the signal goroutine, the server and the process

vars == << variant, errCounter, hpc, query, rps, duration, totalRequests, i, k,
           wg, results, workers, agg, metrics, response, failed, okSum, drained,
           carried, runs, calc, proc >>

-----------------------------------------------------------------------------
(* Bounds of the model *)

\* largest rps * duration of a request to /loadtest
MaxRequests == 2
\* largest latency of one GET, in nanoseconds
MaxLat == 2
\* invocations of the paced build, whose error counter only grows
MaxRuns == 2

(* Program constants *)

\* math.MaxInt64, as far as TLC's integers reach
MaxInt64 == 2147483647
\* runtime.NumCPU()
NumCPU == 2

Latencies == 1..MaxLat
Statuses == {200, 500}

-----------------------------------------------------------------------------
(* strconv.Atoi on a query parameter: a number, or an error with value 0 *)
AtoiResults ==
    [err : {TRUE}, n : {0}] \cup [err : {FALSE}, n : (-1)..MaxRequests]

Queries ==
    { q \in [rps : AtoiResults, duration : AtoiResults] :
        q.rps.n * q.duration.n <= MaxRequests }

(* What client.Get hands back: a transport error, or a response with a     *)
(* status code; the latency is measured either way.                        *)
Responses ==
    [err : {TRUE}, status : {0}, latency : Latencies]
        \cup [err : {FALSE}, status : Statuses, latency : Latencies]

NoResult == [workerID |-> 0, status |-> 0, latency |-> 0, err |-> FALSE]

NoMetrics ==
    [computed |-> FALSE, total_requests |-> 0, average_latency |-> "",
     requests_per_second |-> 0, min_latency |-> "", max_latency |-> "",
     error_rate |-> [num |-> 0, den |-> 1], status_metrics |-> [s \in {} |-> 0],
     p50 |-> "", p90 |-> "", p95 |-> "", p99 |-> ""]

NoChannel == [made |-> FALSE, cap |-> 0, buf |-> << >>, closed |-> FALSE]

NewAgg ==
    [minLatency |-> 0, maxLatency |-> 0, sumLatency |-> 0, totalErrors |-> 0,
     latencies |-> << >>, statusMetrics |-> [s \in {} |-> 0]]

(* Nothing is being computed outside a handler *)
NoCalc == [pc |-> "off"]

(* main() has registered the handler and ListenAndServe is accepting *)
NewProc ==
    [signal |-> FALSE, shutdown |-> "no", listening |-> TRUE, expired |-> FALSE,
     exited |-> FALSE]

-----------------------------------------------------------------------------
(* Go's integer division truncates towards zero *)
GoDiv(a, b) ==
    IF (a >= 0) = (b > 0) THEN (IF a >= 0 THEN a ELSE -a) \div (IF b > 0 THEN b ELSE -b)
    ELSE -((IF a >= 0 THEN a ELSE -a) \div (IF b > 0 THEN b ELSE -b))

(* time.Duration.String() on the durations the model produces: zero, the  *)
(* accumulator's initial math.MaxInt64, and whole nanoseconds below 1us.   *)
DurationString(d) ==
    IF d = 0 THEN "0s"
    ELSE IF d = MaxInt64 THEN "2562047h47m16.854775807s"
    ELSE ToString(d) \o "ns"

(* less = data[i] > data[j]: the slice is sorted in descending order *)
InsertDescending(x, s) ==
    LET n == Cardinality({m \in 1..Len(s) : s[m] >= x})
    IN  SubSeq(s, 1, n) \o << x >> \o SubSeq(s, n + 1, Len(s))

(* sort.Slice(data, less) with less = data[i] < data[j] *)
Insert(x, s) ==
    LET n == Cardinality({m \in 1..Len(s) : s[m] <= x})
    IN  SubSeq(s, 1, n) \o << x >> \o SubSeq(s, n + 1, Len(s))

(* The slice is used as it arrived *)
SortSliceSkipped(s) == s

RECURSIVE SortSlice(_)
SortSlice(s) == IF s = << >> THEN << >> ELSE Insert(Head(s), SortSlice(Tail(s)))

(* The empty sample is answered with len(data)-1 instead of 0 *)
calculatePercentileEmptyIndex(data, percentile) ==
    IF Len(data) = 0 THEN Len(data) - 1
    ELSE LET sorted == SortSlice(data)
             scaled == percentile * (Len(data) - 1)
             lowerIndex == scaled \div 100
         IN  IF scaled % 100 = 0 THEN sorted[lowerIndex + 1]
             ELSE LET upperIndex == lowerIndex + 1
                      lowerValue == sorted[lowerIndex + 1]
                      upperValue == sorted[upperIndex + 1]
                      indexOffset == (scaled % 100) \div 100
                  IN  lowerValue + (upperValue - lowerValue) * indexOffset

(* calculatePercentile: index = percentile/100 * (len-1); the fractional   *)
(* part of index is converted with time.Duration(), which truncates it.    *)
calculatePercentile(data, percentile) ==
    IF Len(data) = 0 THEN 0
    ELSE LET sorted == SortSlice(data)
             scaled == percentile * (Len(data) - 1)
             lowerIndex == scaled \div 100
         IN  IF scaled % 100 = 0 THEN sorted[lowerIndex + 1]
             ELSE LET upperIndex == lowerIndex + 1
                      lowerValue == sorted[lowerIndex + 1]
                      upperValue == sorted[upperIndex + 1]
                      indexOffset == (scaled % 100) \div 100
                  IN  lowerValue + (upperValue - lowerValue) * indexOffset

-----------------------------------------------------------------------------
(* The error counter *)

getErrorCounter(c) == c

incrementErrorCounter(c) == c + 1

(* The reset left out *)
KeepErrorCounter(c) == c

(* LoadTestHandler's first statement in load.go: errCounter = 0 *)
ResetErrorCounter(c) == 0

(* rps + duration instead of rps * duration *)
TotalRequestsSum(r, d) == r + d

(* totalRequests := rps * duration *)
TotalRequests(r, d) == r * d

(* make(chan Result): the buffer size left out *)
MakeUnbuffered(total) ==
    [made |-> TRUE, cap |-> 0, buf |-> << >>, closed |-> FALSE]

(* make(chan Result, totalRequests) *)
MakeResults(total) ==
    [made |-> TRUE, cap |-> total, buf |-> << >>, closed |-> FALSE]

(* A failed request's Result is not sent *)
ChanSendSkipsFailures(ch, result) ==
    IF result.err THEN ch ELSE [ch EXCEPT !.buf = Append(@, result)]

(* results <- result *)
ChanSend(ch, result) == [ch EXCEPT !.buf = Append(@, result)]

(* A turn of the loop takes two Results from the channel and uses one *)
ChanRecvTwice(ch) ==
    [ch EXCEPT !.buf = IF Len(@) >= 2 THEN Tail(Tail(@)) ELSE Tail(@)]

(* result := <-results, as `range results` does it *)
ChanRecv(ch) == [ch EXCEPT !.buf = Tail(@)]

(* close(results) without waiting for the goroutines *)
WaitReturnsAtOnce(n) == TRUE

(* wg.Wait() returns when the counter is zero *)
WaitReturns(n) == n = 0

(* wg.Done() left out *)
DoneMissing(n) == n

(* wg.Done() *)
Done(n) == n - 1

(* The goroutine body: worker.Run(...), then wg.Done() *)
NewWorker(id, epoch, perWorker) ==
    [id |-> id, pc |-> "run", result |-> NoResult, epoch |-> epoch, sent |-> 0,
     rpsForEachWorker |-> perWorker, rate |-> 0, j |-> 0, i |-> 0, tmp |-> 0]

-----------------------------------------------------------------------------
(* The metrics loop of load.go, one Result at a time *)

NewStatusCodeMetrics ==
    [Count |-> 0, MinLatency |-> MaxInt64, MaxLatency |-> 0, SumLatency |-> 0]

(* SumLatency is assigned the latency instead of growing by it *)
UpdateStatusAssignsSum(sm, result) ==
    LET old == IF result.status \in DOMAIN sm THEN sm[result.status]
               ELSE NewStatusCodeMetrics
        new == [Count |-> old.Count + 1,
                SumLatency |-> result.latency,
                MinLatency |-> IF result.latency < old.MinLatency
                               THEN result.latency ELSE old.MinLatency,
                MaxLatency |-> IF result.latency > old.MaxLatency
                               THEN result.latency ELSE old.MaxLatency]
    IN  [s \in DOMAIN sm \cup {result.status} |->
            IF s = result.status THEN new ELSE sm[s]]

(* The two comparisons of the per-status entry are swapped *)
UpdateStatusSwapsMinMax(sm, result) ==
    LET old == IF result.status \in DOMAIN sm THEN sm[result.status]
               ELSE NewStatusCodeMetrics
        new == [Count |-> old.Count + 1,
                SumLatency |-> old.SumLatency + result.latency,
                MinLatency |-> IF result.latency > old.MinLatency
                               THEN result.latency ELSE old.MinLatency,
                MaxLatency |-> IF result.latency < old.MaxLatency
                               THEN result.latency ELSE old.MaxLatency]
    IN  [s \in DOMAIN sm \cup {result.status} |->
            IF s = result.status THEN new ELSE sm[s]]

(* The per-status entry is built anew for every Result *)
UpdateStatusOverwrites(sm, result) ==
    [s \in DOMAIN sm \cup {result.status} |->
        IF s = result.status
        THEN [Count |-> 1, SumLatency |-> result.latency,
              MinLatency |-> result.latency, MaxLatency |-> result.latency]
        ELSE sm[s]]

UpdateStatus(sm, result) ==
    LET old == IF result.status \in DOMAIN sm THEN sm[result.status]
               ELSE NewStatusCodeMetrics
        new == [Count |-> old.Count + 1,
                SumLatency |-> old.SumLatency + result.latency,
                MinLatency |-> IF result.latency < old.MinLatency
                               THEN result.latency ELSE old.MinLatency,
                MaxLatency |-> IF result.latency > old.MaxLatency
                               THEN result.latency ELSE old.MaxLatency]
    IN  [s \in DOMAIN sm \cup {result.status} |->
            IF s = result.status THEN new ELSE sm[s]]

(* A failed Result's latency is recorded before the Result is skipped *)
AggregateRecordsFailedLatency(a, result) ==
    IF result.err
    THEN [a EXCEPT !.sumLatency = @ + result.latency,
                   !.latencies = Append(@, result.latency)]
    ELSE [sumLatency |-> a.sumLatency + result.latency,
          latencies |-> Append(a.latencies, result.latency),
          minLatency |-> IF result.latency < a.minLatency
                         THEN result.latency ELSE a.minLatency,
          maxLatency |-> IF result.latency > a.maxLatency
                         THEN result.latency ELSE a.maxLatency,
          totalErrors |-> a.totalErrors,
          statusMetrics |-> UpdateStatus(a.statusMetrics, result)]

(* A response with a 4xx or 5xx status is skipped like a transport error *)
AggregateSkipsErrorStatus(a, result) ==
    IF result.err \/ result.status >= 400 THEN a
    ELSE [sumLatency |-> a.sumLatency + result.latency,
          latencies |-> Append(a.latencies, result.latency),
          minLatency |-> IF result.latency < a.minLatency
                         THEN result.latency ELSE a.minLatency,
          maxLatency |-> IF result.latency > a.maxLatency
                         THEN result.latency ELSE a.maxLatency,
          totalErrors |-> a.totalErrors,
          statusMetrics |-> UpdateStatus(a.statusMetrics, result)]

(* The comparison for the global minimum is the wrong way round *)
AggregateMinReversed(a, result) ==
    IF result.err THEN a
    ELSE [sumLatency |-> a.sumLatency + result.latency,
          latencies |-> Append(a.latencies, result.latency),
          minLatency |-> IF result.latency > a.minLatency
                         THEN result.latency ELSE a.minLatency,
          maxLatency |-> IF result.latency > a.maxLatency
                         THEN result.latency ELSE a.maxLatency,
          totalErrors |-> a.totalErrors,
          statusMetrics |-> UpdateStatus(a.statusMetrics, result)]

(* The `if result.err != nil { continue }` left out *)
AggregateCountsFailures(a, result) ==
    [sumLatency |-> a.sumLatency + result.latency,
     latencies |-> Append(a.latencies, result.latency),
     minLatency |-> IF result.latency < a.minLatency
                    THEN result.latency ELSE a.minLatency,
     maxLatency |-> IF result.latency > a.maxLatency
                    THEN result.latency ELSE a.maxLatency,
     totalErrors |-> a.totalErrors,
     statusMetrics |-> UpdateStatus(a.statusMetrics, result)]

Aggregate(a, result) ==
    IF result.err THEN a
    ELSE [sumLatency |-> a.sumLatency + result.latency,
          latencies |-> Append(a.latencies, result.latency),
          minLatency |-> IF result.latency < a.minLatency
                         THEN result.latency ELSE a.minLatency,
          maxLatency |-> IF result.latency > a.maxLatency
                         THEN result.latency ELSE a.maxLatency,
          totalErrors |-> a.totalErrors,
          statusMetrics |-> UpdateStatus(a.statusMetrics, result)]

(* avgLatency, guarded against totalRequests = 0; Duration division is     *)
(* integer division                                                        *)
AverageLatency(sumLatency, total) ==
    IF total > 0 THEN GoDiv(sumLatency, total) ELSE 0

(* The error rate as a fraction of one, not as a percentage *)
ErrorRateFraction(totalErrors, total) == [num |-> totalErrors, den |-> total]

(* float64(totalErrors) / float64(totalRequests) * 100, kept as the exact  *)
(* fraction num/den; den = 0 is the float NaN or +Inf                      *)
ErrorRate(totalErrors, total) == [num |-> totalErrors * 100, den |-> total]

ResponseStatusCodeMetrics(m) ==
    [Count |-> m.Count,
     MinLatency |-> DurationString(m.MinLatency),
     MaxLatency |-> DurationString(m.MaxLatency),
     AvgLatency |-> DurationString(GoDiv(m.SumLatency, m.Count))]

LoadTestMetrics(a, total, rate) ==
    [computed |-> TRUE,
     total_requests |-> total,
     average_latency |-> DurationString(AverageLatency(a.sumLatency, total)),
     requests_per_second |-> rate,
     min_latency |-> DurationString(a.minLatency),
     max_latency |-> DurationString(a.maxLatency),
     error_rate |-> ErrorRate(a.totalErrors, total),
     status_metrics |-> [s \in DOMAIN a.statusMetrics |->
                            ResponseStatusCodeMetrics(a.statusMetrics[s])],
     p50 |-> DurationString(calculatePercentile(a.latencies, 50)),
     p90 |-> DurationString(calculatePercentile(a.latencies, 90)),
     p95 |-> DurationString(calculatePercentile(a.latencies, 95)),
     p99 |-> DurationString(calculatePercentile(a.latencies, 99))]

(* json.Marshal refuses a float that is NaN or +Inf *)
MarshalCode(m) == IF m.error_rate.den = 0 THEN "500" ELSE "200"

-----------------------------------------------------------------------------
TypeOK ==
    /\ variant \in {"epoch", "paced"}
    /\ errCounter \in Nat
    /\ hpc \in {"idle", "parse", "launch", "close", "drain"}
    /\ \A w \in 1..Len(workers) :
          workers[w].pc \in {"run", "get", "store", "send", "recover", "done", "exit"}
    /\ query \in Queries
    /\ wg \in Nat
    /\ results.buf \in Seq([workerID : Nat, status : Nat, latency : Nat, err : BOOLEAN])
    /\ response \in {"none", "200", "400", "500", "panic"}
    /\ failed \in Nat
    /\ okSum \in Nat
    /\ drained \in Nat
    /\ carried \in BOOLEAN
    /\ runs \in 0..MaxRuns
    /\ calc.pc \in {"off", "feed", "done"}
    /\ proc.shutdown \in {"no", "called", "returned"}
    /\ proc.signal \in BOOLEAN /\ proc.listening \in BOOLEAN
    /\ proc.expired \in BOOLEAN /\ proc.exited \in BOOLEAN

(* No request has arrived yet *)
InitHandler ==
    /\ errCounter = 0
    /\ hpc = "idle"
    /\ query = [rps |-> [err |-> TRUE, n |-> 0], duration |-> [err |-> TRUE, n |-> 0]]
    /\ rps = 0
    /\ duration = 0
    /\ totalRequests = 0
    /\ i = 0
    /\ k = 0
    /\ wg = 0
    /\ results = NoChannel
    /\ workers = << >>
    /\ agg = NewAgg
    /\ metrics = NoMetrics
    /\ response = "none"
    /\ failed = 0
    /\ okSum = 0
    /\ drained = 0
    /\ carried = FALSE
    /\ runs = 0

Init ==
    /\ variant \in {"epoch", "paced"}
    /\ InitHandler
    /\ calc = NoCalc
    /\ proc = NewProc

-----------------------------------------------------------------------------
(* LoadTestHandler of load.go *)

(* A request arrives while no other is being served; the handler's first   *)
(* statement resets the error counter.                                     *)
HandlerReset ==
    /\ variant = "epoch"
    /\ hpc = "idle"
    /\ \E q \in Queries : query' = q
    /\ errCounter' = ResetErrorCounter(errCounter)
    /\ carried' = (errCounter # 0)
    /\ hpc' = "parse"
    /\ rps' = 0
    /\ duration' = 0
    /\ totalRequests' = 0
    /\ i' = 0
    /\ k' = 0
    /\ wg' = 0
    /\ results' = NoChannel
    /\ workers' = << >>
    /\ agg' = NewAgg
    /\ metrics' = NoMetrics
    /\ response' = "none"
    /\ failed' = 0
    /\ okSum' = 0
    /\ drained' = 0
    /\ UNCHANGED << variant, runs, calc, proc >>

(* Atoi of both parameters, totalRequests, the wait group, the channel,    *)
(* the client, the status map and the latency slice.  make() panics on a   *)
(* negative size; net/http recovers the panic and drops the connection.    *)
HandlerParse ==
    /\ variant = "epoch"
    /\ hpc = "parse"
    /\ IF query.rps.err \/ query.duration.err
       THEN /\ response' = "400"
            /\ hpc' = "idle"
            /\ UNCHANGED << rps, duration, totalRequests, results >>
       ELSE /\ rps' = query.rps.n
            /\ duration' = query.duration.n
            /\ totalRequests' = TotalRequests(query.rps.n, query.duration.n)
            /\ IF TotalRequests(query.rps.n, query.duration.n) < 0
               THEN /\ response' = "panic"
                    /\ hpc' = "idle"
                    /\ UNCHANGED results
               ELSE /\ results' = MakeResults(TotalRequests(query.rps.n, query.duration.n))
                    /\ hpc' = "launch"
                    /\ UNCHANGED response
    /\ UNCHANGED << variant, errCounter, query, i, k, wg, workers, agg, metrics,
                    failed, okSum, drained, carried, runs, calc, proc >>

(* The inner loop runs once more than rps times: j <= rps *)
EpochLaunchedLate(j, r) == j > r

(* The inner loop `for j := 0; j < rps; j++` is over *)
EpochLaunched(j, r) == j >= r

(* One turn of the inner loop: NewWorker, wg.Add(1), go *)
HandlerLaunch ==
    /\ variant = "epoch"
    /\ hpc = "launch"
    /\ i < duration
    /\ ~EpochLaunched(k, rps)
    /\ workers' = Append(workers, NewWorker(k, i, 0))
    /\ wg' = wg + 1
    /\ k' = k + 1
    /\ UNCHANGED << variant, errCounter, hpc, query, rps, duration, totalRequests,
                    i, results, agg, metrics, response, failed, okSum, drained, carried, runs,
                    calc, proc >>

(* The inner loop is over: time.Sleep(time.Second), next epoch *)
HandlerSleep ==
    /\ variant = "epoch"
    /\ hpc = "launch"
    /\ i < duration
    /\ EpochLaunched(k, rps)
    /\ i' = i + 1
    /\ k' = 0
    /\ UNCHANGED << variant, errCounter, hpc, query, rps, duration, totalRequests,
                    wg, results, workers, agg, metrics, response, failed, okSum, drained,
                    carried, runs, calc, proc >>

(* wg.Wait() *)
HandlerWait ==
    /\ variant = "epoch"
    /\ hpc = "launch"
    /\ i >= duration
    /\ WaitReturns(wg)
    /\ hpc' = "close"
    /\ UNCHANGED << variant, errCounter, query, rps, duration, totalRequests, i, k,
                    wg, results, workers, agg, metrics, response, failed, okSum, drained,
                    carried, runs, calc, proc >>

(* close(results); minLatency = MaxInt64; totalErrors := getErrorCounter() *)
HandlerClose ==
    /\ variant = "epoch"
    /\ hpc = "close"
    /\ results' = [results EXCEPT !.closed = TRUE]
    /\ agg' = [agg EXCEPT !.minLatency = MaxInt64,
                          !.totalErrors = getErrorCounter(errCounter)]
    /\ hpc' = "drain"
    /\ UNCHANGED << variant, errCounter, query, rps, duration, totalRequests, i, k,
                    wg, workers, metrics, response, failed, okSum, drained, carried, runs,
                    calc, proc >>

(* One turn of `for result := range results` *)
HandlerDrain ==
    /\ variant = "epoch"
    /\ hpc = "drain"
    /\ results.buf # << >>
    /\ LET result == Head(results.buf)
       IN  /\ results' = ChanRecv(results)
           /\ errCounter' = IF result.err THEN incrementErrorCounter(errCounter)
                            ELSE errCounter
           /\ agg' = Aggregate(agg, result)
    /\ drained' = drained + 1
    /\ UNCHANGED << variant, hpc, query, rps, duration, totalRequests, i, k, wg,
                    workers, metrics, response, failed, okSum, carried, runs,
                    calc, proc >>

(* The channel is closed and empty: the loop ends, the metrics are built,  *)
(* written to the CSV file and marshalled into the response.               *)
HandlerReport ==
    /\ variant = "epoch"
    /\ hpc = "drain"
    /\ results.buf = << >>
    /\ results.closed
    /\ metrics' = LoadTestMetrics(agg, totalRequests, rps)
    /\ response' = MarshalCode(LoadTestMetrics(agg, totalRequests, rps))
    /\ hpc' = "idle"
    /\ UNCHANGED << variant, errCounter, query, rps, duration, totalRequests, i, k,
                    wg, results, workers, agg, failed, okSum, drained, carried, runs,
                    calc, proc >>

-----------------------------------------------------------------------------
(* Worker.Run of load.go, in the goroutine `worker.Run(...); wg.Done()` *)

(* client.Get returns; the Result is built; an error is counted; the       *)
(* worker's own mutex is locked.                                           *)
RunGet(w) ==
    /\ variant = "epoch"
    /\ w \in 1..Len(workers)
    /\ workers[w].pc = "run"
    /\ \E resp \in Responses :
          /\ workers' = [workers EXCEPT ![w].pc = "send",
                            ![w].result = [workerID |-> workers[w].id,
                                           status |-> resp.status,
                                           latency |-> resp.latency,
                                           err |-> resp.err]]
          /\ errCounter' = IF resp.err THEN incrementErrorCounter(errCounter)
                           ELSE errCounter
          /\ failed' = IF resp.err THEN failed + 1 ELSE failed
          /\ okSum' = IF resp.err THEN okSum ELSE okSum + resp.latency
    /\ UNCHANGED << variant, hpc, query, rps, duration, totalRequests, i, k, wg,
                    results, agg, metrics, response, drained, carried, runs,
                    calc, proc >>

(* results <- result, which waits while the buffer is full and panics on a *)
(* closed channel (the deferred recover counts an error); then the         *)
(* deferred Unlock, and Run returns.                                       *)
RunSend(w) ==
    /\ variant = "epoch"
    /\ w \in 1..Len(workers)
    /\ workers[w].pc = "send"
    /\ IF results.closed
       THEN /\ errCounter' = incrementErrorCounter(errCounter)
            /\ workers' = [workers EXCEPT ![w].pc = "done", ![w].result = NoResult]
            /\ UNCHANGED results
       ELSE /\ Len(results.buf) < results.cap
            /\ results' = ChanSend(results, workers[w].result)
            /\ workers' = [workers EXCEPT ![w].pc = "done", ![w].result = NoResult,
                                          ![w].sent = @ + 1]
            /\ UNCHANGED errCounter
    /\ UNCHANGED << variant, hpc, query, rps, duration, totalRequests, i, k, wg,
                    agg, metrics, response, failed, okSum, drained, carried, runs,
                    calc, proc >>

(* Worker w has locked w.mutex, the mutex of its own Worker struct, and    *)
(* has not yet sent: no other goroutine ever locks that mutex, so Lock     *)
(* never waits.                                                            *)
HoldsMutex(w) == workers[w].pc = "send"

(* wg.Done() *)
RunDone(w) ==
    /\ variant = "epoch"
    /\ w \in 1..Len(workers)
    /\ workers[w].pc = "done"
    /\ wg' = Done(wg)
    /\ workers' = [workers EXCEPT ![w].pc = "exit"]
    /\ UNCHANGED << variant, errCounter, hpc, query, rps, duration, totalRequests,
                    i, k, results, agg, metrics, response, failed, okSum, drained, carried, runs,
                    calc, proc >>

Serve ==
    \/ HandlerParse
    \/ HandlerLaunch
    \/ HandlerSleep
    \/ HandlerWait
    \/ HandlerClose
    \/ HandlerDrain
    \/ HandlerReport

Handler == HandlerReset \/ Serve

Run(w) ==
    \/ RunGet(w)
    \/ RunSend(w)
    \/ RunDone(w)

NextEpoch == Handler \/ \E w \in 1..MaxRequests : Run(w)

InitEpoch == Init /\ variant = "epoch"

SpecEpoch == InitEpoch /\ [][NextEpoch]_vars

(* The first request to /loadtest after the server has started.  A later   *)
(* request finds the state HandlerReset leaves, which differs from this    *)
(* one in the history variable `carried` alone.                            *)
HandlerFirst ==
    /\ response = "none"
    /\ HandlerReset

NextEpochFirst == HandlerFirst \/ Serve \/ \E w \in 1..MaxRequests : Run(w)

(* The Go scheduler runs every goroutine that can take a step, and every   *)
(* client.Get returns, at the latest at the client's timeout.  Whether a   *)
(* request arrives is up to the caller.                                    *)
LiveSpecEpoch ==
    /\ InitEpoch
    /\ [][NextEpochFirst]_vars
    /\ WF_vars(Serve)
    /\ \A w \in 1..MaxRequests : WF_vars(Run(w))

-----------------------------------------------------------------------------
(* The paced build (src/unnamed/part_000).  Its error counter has no mutex *)
(* and is never reset: errCounter++ is a load and a store that other       *)
(* goroutines may come between.                                            *)

(* The metrics loop of the paced build: no Result is skipped *)
PacedAggregate(a, result) ==
    [sumLatency |-> a.sumLatency + result.latency,
     latencies |-> a.latencies,
     minLatency |-> IF result.latency < a.minLatency
                    THEN result.latency ELSE a.minLatency,
     maxLatency |-> IF result.latency > a.maxLatency
                    THEN result.latency ELSE a.maxLatency,
     totalErrors |-> a.totalErrors,
     statusMetrics |-> UpdateStatus(a.statusMetrics, result)]

(* time.Duration(float64(sumLatency) / float64(totalRequests)); with       *)
(* totalRequests = 0 the quotient is NaN or +Inf and the conversion is     *)
(* implementation-defined: amd64 gives math.MinInt64                       *)
PacedAverages(sumLatency, total) ==
    IF total # 0 THEN {GoDiv(sumLatency, total)} ELSE {-MaxInt64 - 1, 0, MaxInt64}

PacedLoadTestMetrics(a, total, rate, avg, counter) ==
    [computed |-> TRUE,
     total_requests |-> total,
     average_latency |-> avg,
     requests_per_second |-> rate,
     min_latency |-> a.minLatency,
     max_latency |-> a.maxLatency,
     error_rate |-> ErrorRate(getErrorCounter(counter), total),
     status_metrics |-> a.statusMetrics]

(* A request arrives while no other is being served.  Atoi of both         *)
(* parameters, totalRequests, requestsPerWorker, wg.Add(workers), the      *)
(* channel, the client and the status map.                                 *)
PacedParseOf(queries, maxRuns) ==
    /\ hpc = "idle"
    /\ runs < maxRuns
    /\ runs' = runs + 1
    /\ carried' = (errCounter # 0)
    /\ i' = 0
    /\ k' = 0
    /\ workers' = << >>
    /\ agg' = NewAgg
    /\ metrics' = NoMetrics
    /\ failed' = 0
    /\ okSum' = 0
    /\ drained' = 0
    /\ \E q \in queries :
          /\ query' = q
          /\ IF q.rps.err \/ q.duration.err
             THEN /\ response' = "500"
                  /\ hpc' = "idle"
                  /\ rps' = 0
                  /\ duration' = 0
                  /\ totalRequests' = 0
                  /\ wg' = 0
                  /\ results' = NoChannel
             ELSE /\ rps' = q.rps.n
                  /\ duration' = q.duration.n
                  /\ totalRequests' = TotalRequests(q.rps.n, q.duration.n)
                  /\ wg' = NumCPU
                  /\ IF TotalRequests(q.rps.n, q.duration.n) < 0
                     THEN /\ response' = "panic"
                          /\ hpc' = "idle"
                          /\ results' = NoChannel
                     ELSE /\ response' = "none"
                          /\ hpc' = "launch"
                          /\ results' = MakeResults(TotalRequests(q.rps.n, q.duration.n))
    /\ UNCHANGED << variant, errCounter, calc, proc >>

PacedParse ==
    /\ variant = "paced"
    /\ PacedParseOf(Queries, MaxRuns)

(* requestsPerWorker rounded up instead of down *)
RequestsPerWorkerRoundedUp(total) == GoDiv(total + NumCPU - 1, NumCPU)

(* requestsPerWorker := totalRequests / workers *)
RequestsPerWorker(total) == GoDiv(total, NumCPU)

(* One turn of the launch loop: NewWorker, go *)
PacedLaunch ==
    /\ variant = "paced"
    /\ hpc = "launch"
    /\ i < NumCPU
    /\ workers' = Append(workers, NewWorker(i, 0, RequestsPerWorker(totalRequests)))
    /\ i' = i + 1
    /\ UNCHANGED << variant, errCounter, hpc, query, rps, duration, totalRequests,
                    k, wg, results, agg, metrics, response, failed, okSum, drained,
                    carried, runs, calc, proc >>

(* wg.Wait() *)
PacedWait ==
    /\ variant = "paced"
    /\ hpc = "launch"
    /\ i >= NumCPU
    /\ WaitReturns(wg)
    /\ hpc' = "close"
    /\ UNCHANGED << variant, errCounter, query, rps, duration, totalRequests, i, k,
                    wg, results, workers, agg, metrics, response, failed, okSum, drained,
                    carried, runs, calc, proc >>

(* close(results); minLatency = 1<<63 - 1 *)
PacedClose ==
    /\ variant = "paced"
    /\ hpc = "close"
    /\ results' = [results EXCEPT !.closed = TRUE]
    /\ agg' = [agg EXCEPT !.minLatency = MaxInt64]
    /\ hpc' = "drain"
    /\ UNCHANGED << variant, errCounter, query, rps, duration, totalRequests, i, k,
                    wg, workers, metrics, response, failed, okSum, drained, carried, runs,
                    calc, proc >>

(* One turn of `for result := range results` *)
PacedDrain ==
    /\ variant = "paced"
    /\ hpc = "drain"
    /\ results.buf # << >>
    /\ results' = [results EXCEPT !.buf = Tail(@)]
    /\ agg' = PacedAggregate(agg, Head(results.buf))
    /\ drained' = drained + 1
    /\ UNCHANGED << variant, errCounter, hpc, query, rps, duration, totalRequests,
                    i, k, wg, workers, metrics, response, failed, okSum, carried, runs,
                    calc, proc >>

(* The channel is closed and empty: the metrics are built and c.JSON       *)
(* marshals them.                                                          *)
PacedReport ==
    /\ variant = "paced"
    /\ hpc = "drain"
    /\ results.buf = << >>
    /\ results.closed
    /\ \E avg \in PacedAverages(agg.sumLatency, totalRequests) :
          /\ metrics' = PacedLoadTestMetrics(agg, totalRequests, rps, avg, errCounter)
          /\ response' = MarshalCode(
                PacedLoadTestMetrics(agg, totalRequests, rps, avg, errCounter))
    /\ hpc' = "idle"
    /\ UNCHANGED << variant, errCounter, query, rps, duration, totalRequests, i, k,
                    wg, results, workers, agg, failed, okSum, drained, carried, runs,
                    calc, proc >>

(* Worker.Run of the paced build.  requestRatePerSecond and sleepDuration: *)
(* both divisions panic on a zero divisor, and the deferred recover then   *)
(* counts an error.                                                        *)
PacedRunStart(w) ==
    /\ variant = "paced"
    /\ w \in 1..Len(workers)
    /\ workers[w].pc = "run"
    /\ IF duration = 0 \/ GoDiv(workers[w].rpsForEachWorker, duration) = 0
       THEN workers' = [workers EXCEPT ![w].pc = "recover", ![w].tmp = errCounter]
       ELSE workers' = [workers EXCEPT
                ![w].rate = GoDiv(workers[w].rpsForEachWorker, duration),
                ![w].pc = IF 0 < duration
                             /\ 0 < GoDiv(workers[w].rpsForEachWorker, duration)
                          THEN "get" ELSE "done"]
    /\ UNCHANGED << variant, errCounter, hpc, query, rps, duration, totalRequests,
                    i, k, wg, results, agg, metrics, response, failed, okSum, drained,
                    carried, runs, calc, proc >>

(* client.Get returns and the Result is built; on an error errCounter is   *)
(* loaded for the increment.                                               *)
PacedRunGet(w) ==
    /\ variant = "paced"
    /\ w \in 1..Len(workers)
    /\ workers[w].pc = "get"
    /\ \E resp \in Responses :
          /\ workers' = [workers EXCEPT
                ![w].pc = IF resp.err THEN "store" ELSE "send",
                ![w].tmp = IF resp.err THEN errCounter ELSE 0,
                ![w].result = [workerID |-> workers[w].id, status |-> resp.status,
                               latency |-> resp.latency, err |-> resp.err]]
          /\ failed' = IF resp.err THEN failed + 1 ELSE failed
          /\ okSum' = IF resp.err THEN okSum ELSE okSum + resp.latency
    /\ UNCHANGED << variant, errCounter, hpc, query, rps, duration, totalRequests,
                    i, k, wg, results, agg, metrics, response, drained, carried,
                    runs, calc, proc >>

(* The store of errCounter++ *)
PacedRunStore(w) ==
    /\ variant = "paced"
    /\ w \in 1..Len(workers)
    /\ workers[w].pc = "store"
    /\ errCounter' = workers[w].tmp + 1
    /\ workers' = [workers EXCEPT ![w].pc = "send", ![w].tmp = 0]
    /\ UNCHANGED << variant, hpc, query, rps, duration, totalRequests, i, k, wg,
                    results, agg, metrics, response, failed, okSum, drained, carried, runs,
                    calc, proc >>

(* results <- result, time.Sleep(sleepDuration), and the loop headers: the *)
(* next request, or the return from Run.                                   *)
PacedRunSend(w) ==
    /\ variant = "paced"
    /\ w \in 1..Len(workers)
    /\ workers[w].pc = "send"
    /\ IF results.closed
       THEN /\ workers' = [workers EXCEPT ![w].pc = "recover", ![w].tmp = errCounter,
                                          ![w].result = NoResult]
            /\ UNCHANGED results
       ELSE /\ Len(results.buf) < results.cap
            /\ results' = ChanSend(results, workers[w].result)
            /\ LET ni == workers[w].i + 1
                   nj == IF ni < workers[w].rate THEN workers[w].j
                         ELSE workers[w].j + 1
               IN  workers' = [workers EXCEPT
                       ![w].result = NoResult,
                       ![w].sent = @ + 1,
                       ![w].i = IF ni < workers[w].rate THEN ni ELSE 0,
                       ![w].j = nj,
                       ![w].pc = IF nj < duration THEN "get" ELSE "done"]
    /\ UNCHANGED << variant, errCounter, hpc, query, rps, duration, totalRequests,
                    i, k, wg, agg, metrics, response, failed, okSum, drained, carried,
                    runs, calc, proc >>

(* The deferred recover after a panic: the store of errCounter++, and Run  *)
(* returns.                                                                *)
PacedRunRecover(w) ==
    /\ variant = "paced"
    /\ w \in 1..Len(workers)
    /\ workers[w].pc = "recover"
    /\ errCounter' = workers[w].tmp + 1
    /\ workers' = [workers EXCEPT ![w].pc = "done", ![w].tmp = 0]
    /\ UNCHANGED << variant, hpc, query, rps, duration, totalRequests, i, k, wg,
                    results, agg, metrics, response, failed, okSum, drained, carried, runs,
                    calc, proc >>

(* wg.Done() *)
PacedRunDone(w) ==
    /\ variant = "paced"
    /\ w \in 1..Len(workers)
    /\ workers[w].pc = "done"
    /\ wg' = Done(wg)
    /\ workers' = [workers EXCEPT ![w].pc = "exit"]
    /\ UNCHANGED << variant, errCounter, hpc, query, rps, duration, totalRequests,
                    i, k, results, agg, metrics, response, failed, okSum, drained, carried,
                    runs, calc, proc >>

PacedServe ==
    \/ PacedLaunch
    \/ PacedWait
    \/ PacedClose
    \/ PacedDrain
    \/ PacedReport

PacedHandler == PacedParse \/ PacedServe

PacedRun(w) ==
    \/ PacedRunStart(w)
    \/ PacedRunGet(w)
    \/ PacedRunStore(w)
    \/ PacedRunSend(w)
    \/ PacedRunRecover(w)
    \/ PacedRunDone(w)

NextPaced == PacedHandler \/ \E w \in 1..NumCPU : PacedRun(w)

InitPaced == Init /\ variant = "paced"

SpecPaced == InitPaced /\ [][NextPaced]_vars

(* One invocation of the paced build with parameters that make a worker   *)
(* go round its loops more than once                                       *)

\* largest rps * duration of that invocation
MaxPacedRequests == 4

PacedQueries ==
    { q \in [rps : [err : {FALSE}, n : 1..MaxPacedRequests],
             duration : [err : {FALSE}, n : 1..MaxPacedRequests]] :
        q.rps.n * q.duration.n <= MaxPacedRequests }

PacedParseOnce ==
    /\ variant = "paced"
    /\ PacedParseOf(PacedQueries, 1)

NextPacedOnce ==
    \/ PacedParseOnce
    \/ PacedServe
    \/ \E w \in 1..NumCPU : PacedRun(w)

SpecPacedOnce == InitPaced /\ [][NextPacedOnce]_vars

Next == NextEpoch \/ NextPaced

Spec == Init /\ [][Next]_vars

-----------------------------------------------------------------------------
(* load.go with a Run that panics before it sends, for instance inside     *)
(* client.Get: the deferred function recovers, counts an error and prints, *)
(* and Run returns; the goroutine goes on to wg.Done().                    *)
RunPanic(w) ==
    /\ variant = "epoch"
    /\ w \in 1..Len(workers)
    /\ workers[w].pc = "run"
    /\ errCounter' = incrementErrorCounter(errCounter)
    /\ workers' = [workers EXCEPT ![w].pc = "done"]
    /\ UNCHANGED << variant, hpc, query, rps, duration, totalRequests, i, k, wg,
                    results, agg, metrics, response, failed, okSum, drained,
                    carried, runs, calc, proc >>

NextPanic == NextEpoch \/ \E w \in 1..MaxRequests : RunPanic(w)

SpecPanic == InitEpoch /\ [][NextPanic]_vars

-----------------------------------------------------------------------------
(* main() of load.go: the goroutine that waits for SIGINT or SIGTERM and   *)
(* calls server.Shutdown with a deadline of five seconds, and the main     *)
(* goroutine in log.Fatal(server.ListenAndServe()).  Shutdown closes the   *)
(* listener, which makes ListenAndServe return ErrServerClosed at once;    *)
(* Shutdown itself returns when no request is being served or at the       *)
(* deadline.  log.Fatal ends the process with os.Exit(1).                  *)

handlerVars ==
    << variant, errCounter, hpc, query, rps, duration, totalRequests, i, k, wg,
       results, workers, agg, metrics, response, failed, okSum, drained, carried,
       runs, calc >>

(* <-quit: the signal is delivered *)
MainSignal ==
    /\ ~proc.exited
    /\ ~proc.signal
    /\ proc' = [proc EXCEPT !.signal = TRUE]
    /\ UNCHANGED handlerVars

(* context.WithTimeout(..., 5*time.Second); server.Shutdown(ctx) begins    *)
MainShutdown ==
    /\ ~proc.exited
    /\ proc.signal
    /\ proc.shutdown = "no"
    /\ proc' = [proc EXCEPT !.shutdown = "called", !.listening = FALSE]
    /\ UNCHANGED handlerVars

(* The five seconds of ctx pass *)
MainDeadline ==
    /\ ~proc.exited
    /\ proc.shutdown = "called"
    /\ ~proc.expired
    /\ proc' = [proc EXCEPT !.expired = TRUE]
    /\ UNCHANGED handlerVars

(* server.Shutdown returns; "Server stopped." is logged *)
MainShutdownReturns ==
    /\ ~proc.exited
    /\ proc.shutdown = "called"
    /\ hpc = "idle" \/ proc.expired
    /\ proc' = [proc EXCEPT !.shutdown = "returned"]
    /\ UNCHANGED handlerVars

(* ListenAndServe has returned: log.Fatal prints the error and exits *)
MainFatal ==
    /\ ~proc.exited
    /\ ~proc.listening
    /\ proc' = [proc EXCEPT !.exited = TRUE]
    /\ UNCHANGED handlerVars

(* The listener accepts a request to /loadtest *)
MainAccept ==
    /\ ~proc.exited
    /\ proc.listening
    /\ HandlerReset

(* The handler and its goroutines run as long as the process does *)
MainServe ==
    /\ ~proc.exited
    /\ Serve \/ \E w \in 1..MaxRequests : Run(w)

NextMain ==
    \/ MainAccept
    \/ MainServe
    \/ MainSignal
    \/ MainShutdown
    \/ MainDeadline
    \/ MainShutdownReturns
    \/ MainFatal

SpecMain == InitEpoch /\ [][NextMain]_vars

-----------------------------------------------------------------------------
(* A second request to /loadtest is served while the first is: net/http    *)
(* runs each handler in a goroutine of its own.  The second one here has a *)
(* parameter that Atoi refuses: it resets the error counter, answers 400   *)
(* and returns; its locals are its own.                                    *)
HandlerRejectedMeanwhile ==
    /\ variant = "epoch"
    /\ hpc # "idle"
    /\ errCounter' = ResetErrorCounter(errCounter)
    /\ UNCHANGED << variant, hpc, query, rps, duration, totalRequests, i, k, wg,
                    results, workers, agg, metrics, response, failed, okSum,
                    drained, carried, runs, calc, proc >>

NextOverlap == NextEpoch \/ HandlerRejectedMeanwhile

SpecOverlap == InitEpoch /\ [][NextOverlap]_vars

-----------------------------------------------------------------------------
(* The metrics loop of load.go and calculatePercentile on their own: the   *)
(* Results of one run are handed to the loop in two arrival orders.        *)

\* most Results of a run handed to the metrics loop on its own
MaxSample == 3

(* The percentiles of the report, the quartiles and both ends *)
Percentiles == {0, 25, 50, 75, 90, 95, 99, 100}

(* Results as Run builds them; latencies are tens of nanoseconds, so that  *)
(* a value between two neighbours of the sample is a whole Duration.  The  *)
(* worker id plays no part in the metrics loop.                            *)
SampleResults ==
    [workerID : {0}, err : {TRUE}, status : {0}, latency : {10 * l : l \in Latencies}]
        \cup [workerID : {0}, err : {FALSE}, status : Statuses,
              latency : {10 * l : l \in Latencies}]

Samples == UNION { [1..n -> SampleResults] : n \in 0..MaxSample }

(* The arrival orders of the Results s *)
Arrivals(s) ==
    { [n \in 1..Len(s) |-> s[f[n]]] : f \in Permutations(1..Len(s)) }

(* The accumulators when the metrics loop starts: minLatency is MaxInt64   *)
(* and totalErrors is the error counter, which every failed GET of the run *)
(* has incremented once.                                                   *)
LoopStart(s) ==
    [NewAgg EXCEPT !.minLatency = MaxInt64,
                   !.totalErrors = Cardinality({n \in 1..Len(s) : s[n].err})]

NewCalc(s, t) ==
    [pc |-> "feed", outcomes |-> s, shuffled |-> t, fed |-> 0,
     a |-> LoopStart(s), b |-> LoopStart(t),
     reportA |-> NoMetrics, reportB |-> NoMetrics, pct |-> [p \in {} |-> 0]]

InitCalc ==
    /\ variant = "epoch"
    /\ InitHandler
    /\ proc = NewProc
    /\ \E s \in Samples : \E t \in Arrivals(s) : calc = NewCalc(s, t)

(* One turn of `for result := range results`, in both arrival orders *)
CalcFeed ==
    /\ calc.pc = "feed"
    /\ calc.fed < Len(calc.outcomes)
    /\ calc' = [calc EXCEPT
                   !.a = Aggregate(calc.a, calc.outcomes[calc.fed + 1]),
                   !.b = Aggregate(calc.b, calc.shuffled[calc.fed + 1]),
                   !.fed = @ + 1]
    /\ UNCHANGED << variant, errCounter, hpc, query, rps, duration, totalRequests,
                    i, k, wg, results, workers, agg, metrics, response, failed,
                    okSum, drained, carried, runs, proc >>

(* The loop is over: the averages, the percentiles and the report *)
CalcReport ==
    /\ calc.pc = "feed"
    /\ calc.fed = Len(calc.outcomes)
    /\ calc' = [calc EXCEPT
                   !.pc = "done",
                   !.reportA = LoadTestMetrics(calc.a, Len(calc.outcomes),
                                               Len(calc.outcomes)),
                   !.reportB = LoadTestMetrics(calc.b, Len(calc.shuffled),
                                               Len(calc.shuffled)),
                   !.pct = [p \in Percentiles |->
                               calculatePercentile(calc.a.latencies, p)]]
    /\ UNCHANGED << variant, errCounter, hpc, query, rps, duration, totalRequests,
                    i, k, wg, results, workers, agg, metrics, response, failed,
                    okSum, drained, carried, runs, proc >>

NextCalc == CalcFeed \/ CalcReport

SpecCalc == InitCalc /\ [][NextCalc]_vars

-----------------------------------------------------------------------------
(* Properties *)

AllExited == \A w \in 1..Len(workers) : workers[w].pc = "exit"

Reported == hpc = "idle" /\ metrics.computed

ValidRun == rps > 0 /\ duration > 0

(* C1: in both builds close(results) runs only after wg.Wait has returned: *)
(* when the handler is about to close the channel, and whenever the        *)
(* channel is closed, every launched goroutine has terminated and the wait *)
(* group is at zero, so no goroutine can send on the closed channel.       *)
C1_ClosedAfterAllExited ==
    (hpc = "close" \/ results.closed) => (wg = 0 /\ AllExited)

C1_Witness ==
    /\ results.closed
    /\ Len(results.buf) = 2
    /\ AllExited

(* C2: the channel's capacity is rps * duration, its buffer never holds    *)
(* more, and a goroutine that is about to send always finds room, while    *)
(* nothing is received before every goroutine has terminated.              *)
C2_SendNeverWaits ==
    results.made =>
        /\ results.cap = rps * duration
        /\ Len(results.buf) <= results.cap
        /\ \A w \in 1..Len(workers) :
              workers[w].pc = "send" => Len(results.buf) < results.cap
        /\ ~AllExited => drained = 0

C2_Witness ==
    /\ results.made
    /\ ~results.closed
    /\ results.cap = 2
    /\ Len(results.buf) = 1
    /\ \E w \in 1..Len(workers) : workers[w].pc = "send"

(* C3: a run of the epoch build with rps > 0 and duration > 0 always ends  *)
(* with its report, whatever number of GETs fail, and the report is built  *)
(* only when the wait group is at zero, the channel is closed and empty    *)
(* and all rps * duration Results have been received.                      *)
C3_RunTerminates ==
    /\ [](Reported /\ ValidRun =>
            /\ wg = 0
            /\ results.closed
            /\ results.buf = << >>
            /\ AllExited
            /\ drained = rps * duration)
    /\ (hpc = "launch" /\ ValidRun) ~> (Reported /\ response = "200")

C3_Witness ==
    /\ Reported
    /\ response = "200"
    /\ duration = 2
    /\ failed >= 1
    /\ drained = 2

(* C4: in the epoch build every goroutine sends exactly one Result before  *)
(* it terminates, so the closed channel holds, together with what has been *)
(* received from it, one Result per launched goroutine.                    *)
C4_ExactlyOneResult ==
    /\ \A w \in 1..Len(workers) :
          workers[w].sent = IF workers[w].pc \in {"done", "exit"} THEN 1 ELSE 0
    /\ ~results.closed => Len(results.buf) = Cardinality(
            {w \in 1..Len(workers) : workers[w].pc \in {"done", "exit"}})
    /\ results.closed => Len(results.buf) + drained = Len(workers)

C4_Witness ==
    /\ results.closed
    /\ drained = 0
    /\ Len(results.buf) = 2
    /\ failed = 1

(* C5: for rps > 0 and duration > 0 the epoch build has launched           *)
(* rps * duration goroutines, rps in every epoch, when it starts to wait,  *)
(* and total_requests of the report is that number.                        *)
C5_LaunchCount ==
    ValidRun =>
        /\ (hpc = "launch" /\ i >= duration) \/ hpc \in {"close", "drain"} \/ Reported
              => /\ Len(workers) = rps * duration
                 /\ \A e \in 0..(duration - 1) :
                       Cardinality({w \in 1..Len(workers) : workers[w].epoch = e}) = rps
        /\ Reported => metrics.total_requests = Len(workers)

C5_Witness ==
    /\ Reported
    /\ rps = 1
    /\ duration = 2
    /\ metrics.total_requests = 2

(* C6: a request whose rps or duration is not a number or is <= 0 is       *)
(* answered with an error before any work: no channel, no goroutine, no    *)
(* metrics.                                                                *)
InvalidQuery ==
    \/ query.rps.err
    \/ query.duration.err
    \/ query.rps.n <= 0
    \/ query.duration.n <= 0

C6_InvalidRejected ==
    InvalidQuery =>
        /\ ~results.made
        /\ workers = << >>
        /\ ~metrics.computed
        /\ response \in {"none", "400"}

(* C7: the error_rate of a report of the epoch build is the number of the  *)
(* run's failed GETs over rps * duration, times 100, between 0 and 100.    *)
C7_ErrorRate ==
    Reported /\ ValidRun =>
        /\ metrics.error_rate = [num |-> failed * 100, den |-> rps * duration]
        /\ 0 <= metrics.error_rate.num
        /\ metrics.error_rate.num <= 100 * metrics.error_rate.den

C7_Witness ==
    /\ Reported
    /\ rps * duration = 2
    /\ failed = 1
    /\ metrics.error_rate = [num |-> 100, den |-> 2]

(* C8: when the metrics loop is over, the error counter equals the number  *)
(* of the run's failed GETs.                                               *)
C8_OneIncrementPerFailure ==
    Reported => errCounter = failed

(* C9: in the epoch build the error counter is zero from the handler's     *)
(* first statement until the first GET of the run returns, and a run that  *)
(* follows a run with failures reports only its own failures.              *)
C9_ResetAtStart ==
    /\ hpc = "parse" => errCounter = 0
    /\ (hpc = "launch" /\ \A w \in 1..Len(workers) : workers[w].pc = "run")
          => errCounter = 0
    /\ Reported /\ ValidRun /\ carried
          => metrics.error_rate.num = failed * 100

C9_Witness ==
    /\ Reported
    /\ ValidRun
    /\ carried
    /\ failed = 0
    /\ metrics.error_rate.num = 0

(* C10: the average latency of a report is the summed latency of the GETs  *)
(* that returned a response, divided (as Durations, in whole nanoseconds)  *)
(* by totalRequests, failed GETs included; it is zero when totalRequests   *)
(* is zero.                                                                *)
C10_AverageLatency ==
    Reported =>
        metrics.average_latency =
            DurationString(IF totalRequests = 0 THEN 0 ELSE okSum \div totalRequests)

C10_Witness ==
    /\ Reported
    /\ totalRequests = 2
    /\ failed = 1
    /\ okSum = 2
    /\ metrics.average_latency = "1ns"

(* The sum of Count over the entries of a per-status map *)
RECURSIVE SumCount(_, _)
SumCount(sm, codes) ==
    IF codes = {} THEN 0
    ELSE LET s == CHOOSE c \in codes : TRUE
         IN  sm[s].Count + SumCount(sm, codes \ {s})

C12_OrderIndependent ==
    calc.pc = "done" => calc.reportA = calc.reportB

C12_Witness ==
    /\ calc.pc = "done"
    /\ calc.outcomes # calc.shuffled
    /\ calc.a.latencies # calc.b.latencies
    /\ calc.a.totalErrors = 1
    /\ calc.reportA.min_latency # calc.reportA.max_latency

(* The value between the two neighbours of rank p/100 * (n-1) in the       *)
(* sorted sample, weighted by the fractional part of the rank              *)
Interpolation(data, p) ==
    LET sorted == SortSlice(data)
        scaled == p * (Len(data) - 1)
        lower == sorted[(scaled \div 100) + 1]
    IN  IF scaled % 100 = 0 THEN lower
        ELSE LET upper == sorted[(scaled \div 100) + 2]
             IN  lower + ((upper - lower) * (scaled % 100)) \div 100

(* C13: for a non-empty sample of n latencies calculatePercentile returns  *)
(* the element of the sorted sample at rank r = p/100 * (n-1) when r is    *)
(* whole, and otherwise lower + (upper - lower) * frac(r) for the elements *)
(* at floor(r) and ceil(r).                                                *)
C13_LinearInterpolation ==
    (calc.pc = "done" /\ calc.a.latencies # << >>) =>
        \A p \in Percentiles :
            calc.pct[p] = Interpolation(calc.a.latencies, p)

(* C14: calculatePercentile does not decrease when p grows: for every      *)
(* sample and all p1 < p2 the value for p1 is at most the value for p2,    *)
(* and the p50, p90, p95 and p99 of a report are those values in order.    *)
C14_PercentileMonotonic ==
    calc.pc = "done" =>
        /\ \A p1, p2 \in Percentiles :
              p1 < p2 => calc.pct[p1] <= calc.pct[p2]
        /\ calc.reportA.p50 = DurationString(calc.pct[50])
        /\ calc.reportA.p90 = DurationString(calc.pct[90])
        /\ calc.reportA.p95 = DurationString(calc.pct[95])
        /\ calc.reportA.p99 = DurationString(calc.pct[99])

C14_Witness ==
    /\ calc.pc = "done"
    /\ Len(calc.a.latencies) = 3
    /\ calc.a.latencies[1] > calc.a.latencies[2]
    /\ calc.pct[0] = calc.pct[50]
    /\ calc.pct[99] < calc.pct[100]

(* C15: on an empty sample (every request failed, or none was made)        *)
(* calculatePercentile returns the zero Duration for every p, and the      *)
(* report shows it as p50, p90, p95 and p99.                               *)
C15_EmptySampleIsZero ==
    (calc.pc = "done" /\ calc.a.latencies = << >>) =>
        /\ \A p \in Percentiles : calc.pct[p] = 0
        /\ calc.reportA.p50 = "0s" /\ calc.reportA.p90 = "0s"
        /\ calc.reportA.p95 = "0s" /\ calc.reportA.p99 = "0s"

C15_Witness ==
    /\ calc.pc = "done"
    /\ Len(calc.outcomes) = 2
    /\ calc.a.totalErrors = 2
    /\ calc.a.latencies = << >>
    /\ calc.pct[99] = 0

(* C16: a turn of the metrics loop on a Result with an error leaves the    *)
(* latency sum, the global minimum and maximum, the latency sample and the *)
(* per-status map as they were.                                            *)
C16_FailedOutcomeFrame ==
    [][(/\ hpc = "drain"
        /\ results.buf # << >>
        /\ drained' = drained + 1
        /\ Head(results.buf).err)
          => /\ agg'.sumLatency = agg.sumLatency
             /\ agg'.minLatency = agg.minLatency
             /\ agg'.maxLatency = agg.maxLatency
             /\ agg'.latencies = agg.latencies
             /\ agg'.statusMetrics = agg.statusMetrics]_vars

C16_Witness ==
    /\ hpc = "drain"
    /\ totalRequests = 2
    /\ failed = 1
    /\ drained = 1
    /\ Len(results.buf) = 1
    /\ ~Head(results.buf).err
    /\ agg.latencies = << >>
    /\ agg.minLatency = MaxInt64

(* C17: a GET that returns a response, whatever its status code, is not a  *)
(* failure: Run does not increment the error counter for it, and the       *)
(* metrics loop adds its latency to the global sum, sample, minimum and    *)
(* maximum and to the per-status entry of its code.  Run increments the    *)
(* counter only for a GET that returned an error.                          *)
C17_AnyStatusIsSuccess ==
    [][/\ \A w \in 1..Len(workers) :
            (/\ w <= Len(workers')
             /\ workers[w].pc = "run"
             /\ workers'[w].pc = "send")
               => IF workers'[w].result.err
                  THEN errCounter' = errCounter + 1 /\ failed' = failed + 1
                  ELSE /\ errCounter' = errCounter
                       /\ failed' = failed
                       /\ workers'[w].result.status \in Statuses
       /\ (/\ hpc = "drain"
           /\ results.buf # << >>
           /\ drained' = drained + 1
           /\ ~Head(results.buf).err)
             => LET r == Head(results.buf)
                    old == IF r.status \in DOMAIN agg.statusMetrics
                           THEN agg.statusMetrics[r.status]
                           ELSE [Count |-> 0, SumLatency |-> 0]
                IN  /\ errCounter' = errCounter
                    /\ agg'.totalErrors = agg.totalErrors
                    /\ agg'.sumLatency = agg.sumLatency + r.latency
                    /\ agg'.latencies = Append(agg.latencies, r.latency)
                    /\ agg'.minLatency <= r.latency
                    /\ agg'.maxLatency >= r.latency
                    /\ r.status \in DOMAIN agg'.statusMetrics
                    /\ agg'.statusMetrics[r.status].Count = old.Count + 1
                    /\ agg'.statusMetrics[r.status].SumLatency
                          = old.SumLatency + r.latency]_vars

C17_Witness ==
    /\ Reported
    /\ totalRequests = 2
    /\ errCounter = 0
    /\ metrics.error_rate.num = 0
    /\ DOMAIN metrics.status_metrics = {500}
    /\ metrics.status_metrics[500].Count = 2

(* C18: an executor that panics still puts exactly one Result, a failed    *)
(* one, on the channel and increments the error counter once: when the     *)
(* handler has closed the channel, every goroutine it launched has sent    *)
(* one Result and the failed Results are as many as the counter says.      *)
C18_PanicBecomesOutcome ==
    (hpc = "drain" /\ drained = 0) =>
        /\ Len(results.buf) = Len(workers)
        /\ Cardinality({n \in 1..Len(results.buf) : results.buf[n].err})
              = agg.totalErrors

(* C19: the process does not exit while a run is in flight and the five    *)
(* seconds given to server.Shutdown have not passed: when it exits, the    *)
(* run that was in flight at the signal has reported, or its grace period  *)
(* is over.                                                                *)
C19_GracefulExit ==
    proc.exited => (hpc = "idle" \/ proc.expired)

(* What the paced build can send for rps and duration with NumCPU workers *)
PacedAttempts ==
    IF rps % NumCPU = 0 THEN rps * duration
    ELSE rps * duration - duration * (rps % NumCPU)

(* C20: in the paced build with rps > 0 and duration > 0 the Results sent  *)
(* to the channel are rps * duration when NumCPU divides rps, and          *)
(* duration * (rps mod NumCPU) fewer otherwise, also for rps < NumCPU; the *)
(* report's total_requests is rps * duration.                              *)
C20_PacedRoundingLoss ==
    (variant = "paced" /\ ValidRun /\ results.made) =>
        /\ Len(results.buf) + drained <= PacedAttempts
        /\ results.closed => Len(results.buf) + drained = PacedAttempts
        /\ Reported => /\ drained = PacedAttempts
                       /\ metrics.total_requests = rps * duration

C20_Witness ==
    /\ variant = "paced"
    /\ Reported
    /\ rps = 3
    /\ duration = 1
    /\ drained = 2
    /\ metrics.total_requests = 3

(* C21: in the paced build no increment of the error counter is lost: when *)
(* wg.Wait has returned in the first invocation, in which every worker had *)
(* requests to make, the counter equals the number of GETs that returned   *)
(* an error.                                                               *)
C21_NoLostIncrement ==
    (/\ variant = "paced"
     /\ runs = 1
     /\ hpc = "close"
     /\ duration > 0
     /\ rps >= NumCPU)
        => errCounter = failed

(* C22: the paced build starts every invocation with the error counter at  *)
(* zero, so the error rate of a report counts no more than the failed GETs *)
(* of its own invocation.                                                  *)
C22_PacedResetAtStart ==
    (/\ variant = "paced"
     /\ Reported
     /\ duration > 0
     /\ rps >= NumCPU)
        => metrics.error_rate.num <= failed * 100

(* The goroutines of the invocation that have not terminated *)
InFlight == Cardinality({w \in 1..Len(workers) : workers[w].pc # "exit"})

(* C23: in load.go exactly rps goroutines are launched per epoch, epoch    *)
(* i+1 only after the rps launches of epoch i and the sleep, so the        *)
(* goroutines launched and not terminated are never more than rps times    *)
(* the epochs started, which is at most rps * duration.                    *)
C23_InFlightBounded ==
    (variant = "epoch" /\ ValidRun /\ results.made) =>
        LET started == IF i < duration THEN i + 1 ELSE duration
        IN  /\ k <= rps
            /\ Len(workers) = IF i < duration THEN i * rps + k ELSE rps * duration
            /\ \A w \in 1..Len(workers) :
                  /\ workers[w].epoch = (w - 1) \div rps
                  /\ workers[w].id = (w - 1) % rps
            /\ InFlight <= rps * started
            /\ rps * started <= rps * duration

C23_Witness ==
    /\ variant = "epoch"
    /\ hpc = "launch"
    /\ rps = 1
    /\ duration = 2
    /\ i = 1
    /\ k = 1
    /\ workers[1].pc = "run"
    /\ workers[2].epoch = 1
    /\ InFlight = 2

(* C24: the metrics loop of load.go receives every Result that was sent,   *)
(* each once, and ends only on the closed and empty channel: when the      *)
(* averages, the percentiles and the report are computed no Result is left *)
(* in the channel, no goroutine is still running, and the Results received *)
(* are those of all launched goroutines, the successful ones in the        *)
(* latency sample.  Only the handler's loop changes the accumulators.      *)
C24_DrainedBeforeReport ==
    /\ (variant = "epoch" /\ metrics.computed) =>
          /\ results.closed
          /\ results.buf = << >>
          /\ AllExited
          /\ drained = Len(workers)
          /\ Len(agg.latencies) = drained - failed
    /\ (variant = "epoch" /\ hpc = "drain") =>
          /\ AllExited
          /\ Len(results.buf) + drained = Len(workers)
    /\ (variant = "epoch" /\ hpc \in {"parse", "launch", "close"}) =>
          /\ agg.latencies = << >>
          /\ DOMAIN agg.statusMetrics = {}

C24_Witness ==
    /\ variant = "epoch"
    /\ Reported
    /\ Len(workers) = 2
    /\ drained = 2
    /\ failed = 1
    /\ Len(agg.latencies) = 1

(* C25: a request to /loadtest served while a run is in progress does not  *)
(* change the run's error rate: the totalErrors the run reads after        *)
(* wg.Wait, and the error_rate of its report, count the run's own failed   *)
(* GETs.                                                                   *)
C25_OwnFailuresOnly ==
    /\ (variant = "epoch" /\ hpc = "drain") => agg.totalErrors = failed
    /\ (variant = "epoch" /\ Reported /\ ValidRun) =>
          metrics.error_rate = [num |-> failed * 100, den |-> rps * duration]

(* C26: in the report of a run with at least one successful request        *)
(* min_latency <= p50 <= p90 <= p95 <= p99 <= max_latency, and min_latency *)
(* and max_latency are the smallest and the largest latency of the         *)
(* successful Results.                                                     *)
C26_PercentilesWithinRange ==
    (calc.pc = "done" /\ calc.a.latencies # << >>) =>
        LET ok == {n \in 1..Len(calc.outcomes) : ~calc.outcomes[n].err}
        IN  /\ \E n \in ok : calc.outcomes[n].latency = calc.a.minLatency
            /\ \E n \in ok : calc.outcomes[n].latency = calc.a.maxLatency
            /\ \A n \in ok : /\ calc.a.minLatency <= calc.outcomes[n].latency
                             /\ calc.outcomes[n].latency <= calc.a.maxLatency
            /\ calc.a.minLatency <= calc.pct[50]
            /\ calc.pct[50] <= calc.pct[90]
            /\ calc.pct[90] <= calc.pct[95]
            /\ calc.pct[95] <= calc.pct[99]
            /\ calc.pct[99] <= calc.a.maxLatency
            /\ calc.reportA.min_latency = DurationString(calc.a.minLatency)
            /\ calc.reportA.max_latency = DurationString(calc.a.maxLatency)
            /\ calc.reportA.p50 = DurationString(calc.pct[50])
            /\ calc.reportA.p99 = DurationString(calc.pct[99])

C26_Witness ==
    /\ calc.pc = "done"
    /\ Len(calc.a.latencies) = 2
    /\ calc.a.totalErrors = 1
    /\ calc.reportA.min_latency = "10ns"
    /\ calc.reportA.p99 = "10ns"
    /\ calc.reportA.max_latency = "20ns"

(* C27: in every report that LoadTestHandler returns min_latency is at     *)
(* most max_latency, also when no request of the run succeeded (stated for *)
(* runs with rps > 0 and duration > 0).                                    *)
C27_MinAtMostMax ==
    (variant = "epoch" /\ Reported /\ ValidRun /\ response = "200") =>
        /\ metrics.min_latency = DurationString(agg.minLatency)
        /\ metrics.max_latency = DurationString(agg.maxLatency)
        /\ agg.minLatency <= agg.maxLatency

(* The sum of SumLatency over the entries of a per-status map *)
RECURSIVE SumOfSums(_, _)
SumOfSums(sm, codes) ==
    IF codes = {} THEN 0
    ELSE LET s == CHOOSE c \in codes : TRUE
         IN  sm[s].SumLatency + SumOfSums(sm, codes \ {s})

(* C28: after every turn of the metrics loop the per-status entries agree  *)
(* with the global accumulators: their SumLatency add up to the global     *)
(* sum, the smallest MinLatency is the global minimum, the largest         *)
(* MaxLatency is the global maximum, and their Counts add up to the length *)
(* of the latency sample.                                                  *)
C28_StatusAgreesWithGlobal ==
    (calc.pc \in {"feed", "done"} /\ calc.fed > 0) =>
        LET sm == calc.a.statusMetrics
        IN  /\ SumOfSums(sm, DOMAIN sm) = calc.a.sumLatency
            /\ SumCount(sm, DOMAIN sm) = Len(calc.a.latencies)
            /\ \A s \in DOMAIN sm : /\ calc.a.minLatency <= sm[s].MinLatency
                                    /\ sm[s].MaxLatency <= calc.a.maxLatency
            /\ DOMAIN sm # {} =>
                  /\ \E s \in DOMAIN sm : sm[s].MinLatency = calc.a.minLatency
                  /\ \E s \in DOMAIN sm : sm[s].MaxLatency = calc.a.maxLatency
            /\ DOMAIN sm = {} =>
                  /\ calc.a.minLatency = MaxInt64
                  /\ calc.a.maxLatency = 0

C28_Witness ==
    /\ calc.pc = "feed"
    /\ calc.fed = 3
    /\ DOMAIN calc.a.statusMetrics = {200, 500}
    /\ calc.a.statusMetrics[200].Count = 2
    /\ calc.a.statusMetrics[500].MinLatency = calc.a.maxLatency
    /\ calc.a.statusMetrics[200].MaxLatency < calc.a.maxLatency

(* C29: every entry of the per-status map has Count >= 1 and MinLatency <= *)
(* MaxLatency from the turn of the loop that creates it, so the average    *)
(* SumLatency / Count of the report never divides by zero.                 *)
C29_StatusEntriesCounted ==
    variant = "epoch" =>
        /\ \A s \in DOMAIN agg.statusMetrics :
              /\ agg.statusMetrics[s].Count >= 1
              /\ agg.statusMetrics[s].MinLatency <= agg.statusMetrics[s].MaxLatency
              /\ agg.statusMetrics[s].SumLatency >= agg.statusMetrics[s].Count
        /\ DOMAIN agg.statusMetrics # {} => hpc \in {"drain", "idle"}
        /\ Reported =>
              /\ DOMAIN metrics.status_metrics = DOMAIN agg.statusMetrics
              /\ \A s \in DOMAIN metrics.status_metrics :
                    /\ metrics.status_metrics[s].Count = agg.statusMetrics[s].Count
                    /\ metrics.status_metrics[s].AvgLatency =
                          DurationString(agg.statusMetrics[s].SumLatency
                                            \div agg.statusMetrics[s].Count)

C29_Witness ==
    /\ variant = "epoch"
    /\ hpc = "drain"
    /\ drained = 1
    /\ DOMAIN agg.statusMetrics = {500}
    /\ agg.statusMetrics[500].Count = 1
    /\ agg.statusMetrics[500].MinLatency = agg.statusMetrics[500].MaxLatency

(* C30: the mutex locked in Run protects the results channel: at most one  *)
(* goroutine at a time is between locking its mutex and completing its     *)
(* send.                                                                   *)
C30_OneSenderAtATime ==
    variant = "epoch" =>
        Cardinality({w \in 1..Len(workers) : HoldsMutex(w)}) <= 1

=============================================================================
